---- MODULE Spec2Model ----
(***************************************************************************)
(* Model of the AMS edge function (supabase/functions/ams/index.ts) and    *)
(* of the tables, constraints and queue of the database migration          *)
(* (supabase/migrations/0002_user_profiles.sql).                           *)
(*                                                                         *)
(* Every request handler is a process that runs one store / remote         *)
(* statement (one `await`) per step, so that concurrent requests           *)
(* interleave exactly at the points where the code yields.  The tables     *)
(* are sets of rows; a primary key is enforced by the insert that the      *)
(* code issues (error 23505), never by the model's shape.                  *)
(***************************************************************************)
EXTENDS Integers, Sequences, FiniteSets, TLC

(***************************************************************************)
(* Bounds of the model.                                                    *)
(***************************************************************************)
\* Number of requests (publish, create, upgrade) issued over a behaviour
\* that starts from the empty database.
MaxRequests == 3
\* Number of upgrade requests issued over a behaviour that starts from a
\* database holding two versions of the template and one instance.
MaxUpgrades == 2

\* The requests handled at the same time: two edge-function invocations.
Procs == {1, 2}

\* The value of an absent header / optional field (JavaScript undefined).
Undefined == "undefined"

\* Idempotency-Key header values a client may send.
KeyOpts == {Undefined, "k1"}

TemplateId == "T"
UserIds == {"u1", "u2"}
ZUPLO_BASE_URL == "https://zuplo"

(***************************************************************************)
(* npm:semver, as far as the handlers use it: valid, lt, rcompare.         *)
(* A version string is parsed into major.minor.patch and a pre-release     *)
(* identifier list; a string that does not parse is not valid.             *)
(***************************************************************************)
NumId(n) == [num |-> TRUE, n |-> n, s |-> ""]
AlphaId(s) == [num |-> FALSE, n |-> 0, s |-> s]

SemverInvalid == [valid |-> FALSE, major |-> 0, minor |-> 0, patch |-> 0, pre |-> <<>>]
SemverOf(ma, mi, pa, pre) == [valid |-> TRUE, major |-> ma, minor |-> mi, patch |-> pa, pre |-> pre]

\* semver.parse on the version strings of the model.
SemverParse(v) ==
    CASE v = "1.0.0" -> SemverOf(1, 0, 0, <<>>)
      [] v = "1.0.1" -> SemverOf(1, 0, 1, <<>>)
      [] v = "1.2.0" -> SemverOf(1, 2, 0, <<>>)
      [] v = "1.3.0" -> SemverOf(1, 3, 0, <<>>)
      [] v = "1.4.0" -> SemverOf(1, 4, 0, <<>>)
      [] v = "2.0.0" -> SemverOf(2, 0, 0, <<>>)
      [] v = "2.0.0-rc.1" -> SemverOf(2, 0, 0, <<AlphaId("rc"), NumId(1)>>)
      [] v = "2.0.0-rc.2" -> SemverOf(2, 0, 0, <<AlphaId("rc"), NumId(2)>>)
      [] v = "2.0.0-beta" -> SemverOf(2, 0, 0, <<AlphaId("beta")>>)
      [] OTHER -> SemverInvalid

SemverValid(v) == SemverParse(v).valid

\* Lexical (ASCII) order of the alphanumeric identifiers of the model.
AlphaRank(s) == CASE s = "alpha" -> 1 [] s = "beta" -> 2 [] s = "rc" -> 3 [] OTHER -> 0

Sign(a, b) == IF a < b THEN -1 ELSE IF a > b THEN 1 ELSE 0

\* compareIdentifiers: numeric identifiers compare as numbers and sort
\* before alphanumeric ones, alphanumeric ones compare lexically.
CompareIdentifiers(a, b) ==
    IF a.num /\ b.num THEN Sign(a.n, b.n)
    ELSE IF a.num THEN -1
    ELSE IF b.num THEN 1
    ELSE Sign(AlphaRank(a.s), AlphaRank(b.s))

RECURSIVE ComparePreFrom(_, _, _)
ComparePreFrom(a, b, i) ==
    IF i > Len(a) /\ i > Len(b) THEN 0
    ELSE IF i > Len(b) THEN 1
    ELSE IF i > Len(a) THEN -1
    ELSE IF CompareIdentifiers(a[i], b[i]) # 0 THEN CompareIdentifiers(a[i], b[i])
    ELSE ComparePreFrom(a, b, i + 1)

\* SemVer.comparePre: a release sorts after its pre-releases.
ComparePre(a, b) ==
    IF Len(a) > 0 /\ Len(b) = 0 THEN -1
    ELSE IF Len(a) = 0 /\ Len(b) > 0 THEN 1
    ELSE IF Len(a) = 0 /\ Len(b) = 0 THEN 0
    ELSE ComparePreFrom(a, b, 1)

\* SemVer.compare on two parsed versions.
CompareParsed(a, b) ==
    IF a.major # b.major THEN Sign(a.major, b.major)
    ELSE IF a.minor # b.minor THEN Sign(a.minor, b.minor)
    ELSE IF a.patch # b.patch THEN Sign(a.patch, b.patch)
    ELSE ComparePre(a.pre, b.pre)

SemverCompare(a, b) == CompareParsed(SemverParse(a), SemverParse(b))

\* semver.lt(a, b); the library throws a TypeError on a string that does
\* not parse, which callers see as SemverThrows.
SemverThrows(a, b) == ~SemverValid(a) \/ ~SemverValid(b)
SemverLt(a, b) == SemverCompare(a, b) < 0

(***************************************************************************)
(* Agent Files.  A request body is a string; parseAgentFile turns it into  *)
(* the AgentFile object.  The bodies of the model are the sample document  *)
(* of the smoke test for template T in two versions and two variants (A    *)
(* and B differ in system prompt and declared migration steps), one body   *)
(* whose template.version is not SemVer, and the empty body.               *)
(***************************************************************************)
PatchStep ==
    [type |-> "json_patch", description |-> "switch model",
     patch |-> << [op |-> "replace", path |-> "/model", value |-> "gpt-4o-mini"],
                  [op |-> "replace", path |-> "/model_endpoint", value |-> "https://direct"] >>]
ScriptStep ==
    [type |-> "script", description |-> "reindex memory", patch |-> <<>>]

MigrationsOfVariant(variant) ==
    IF variant = "A"
    THEN << [from |-> "1.0.0", to |-> "1.0.1", steps |-> <<PatchStep>>] >>
    ELSE << [from |-> "1.0.0", to |-> "1.0.1", steps |-> <<ScriptStep, PatchStep>>] >>

AgentFileOf(version, variant) ==
    [af_version |-> "1.0",
     template |-> [id |-> TemplateId, version |-> version],
     engine |-> [model |-> "gpt-4o", embedding |-> "text-embedding-3-large"],
     persona |-> [system_prompt |-> "prompt " \o variant],
     migrations |-> MigrationsOfVariant(variant)]

\* The bodies clients publish.
RawBodies == {"T@1.0.0#A", "T@1.0.0#B", "T@1.0.1#A", "T@1.0#A", ""}

\* parseAgentFile throws on an empty body or on a body that is no object.
ParseThrows(rawBody) == rawBody = ""

\* parseAgentFile(rawBody).agentFile for a body that parses.
ParseAgentFile(rawBody) ==
    CASE rawBody = "T@1.0.0#A" -> AgentFileOf("1.0.0", "A")
      [] rawBody = "T@1.0.0#B" -> AgentFileOf("1.0.0", "B")
      [] rawBody = "T@1.0.1#A" -> AgentFileOf("1.0.1", "A")
      [] rawBody = "T@1.0.1#B" -> AgentFileOf("1.0.1", "B")
      [] rawBody = "T@1.0#A" -> AgentFileOf("1.0", "A")

\* validateAgentFile(agentFile).valid: the required fields are present and
\* template.version is valid SemVer (an empty string is a missing field).
\* Every migration of the model's bodies has from, to, and steps with
\* their patch or script, so the checks on them add no error.
ValidateAgentFile(agentFile) ==
    /\ agentFile.af_version # ""
    /\ agentFile.template.id # ""
    /\ agentFile.template.version # ""
    /\ agentFile.persona.system_prompt # ""
    /\ agentFile.engine.model # ""
    /\ agentFile.engine.embedding # ""
    /\ SemverValid(agentFile.template.version)

\* sha256(content) as a hex digest: one digest per content.
Sha256(content) == "sha256(" \o content \o ")"

(***************************************************************************)
(* SemverGate: assessSemver(nextVersion, existing).                        *)
(***************************************************************************)
\* existing.filter(semver.valid).sort(semver.rcompare)[0]: a valid entry
\* that no other valid entry exceeds.
LatestOf(existing) ==
    CHOOSE v \in {e \in existing : SemverValid(e)} :
        \A w \in {e \in existing : SemverValid(e)} : SemverCompare(w, v) <= 0

\* The result of assessSemver: "allowed", "duplicate" (Version already
\* published), "regressive" (lower than latest) or "throws" (semver.lt
\* raises a TypeError on a nextVersion that does not parse).
AssessSemver(nextVersion, existing) ==
    IF nextVersion \in existing THEN "duplicate"
    ELSE IF {e \in existing : SemverValid(e)} = {} THEN "allowed"
    ELSE IF SemverThrows(nextVersion, LatestOf(existing)) THEN "throws"
    ELSE IF SemverLt(nextVersion, LatestOf(existing)) THEN "regressive"
    ELSE "allowed"

(***************************************************************************)
(* State: the tables of the migration, the storage bucket, the pgmq queue, *)
(* the remote Letta API, and the requests in flight.                       *)
(***************************************************************************)
VARIABLES
    af_templates,      \* table af_templates: the set of template ids
    af_versions,       \* table af_versions: rows, primary key (template_id, version)
    agent_instances,   \* table agent_instances: rows, primary key agent_id
    agent_migrations,  \* table agent_migrations: the rows in insertion order
    request_dedup,     \* table request_dedup: rows, primary key idempotency_key
    user_profiles,     \* table user_profiles: rows, primary key id
    storage,           \* bucket af-templates: rows [path, content]
    upgrade_jobs,      \* pgmq queue upgrade_jobs: the messages sent, in order
    upgrade_jobs_deadletter, \* pgmq queue upgrade_jobs_deadletter: the messages sent, in order
    cronBatch,         \* the msg_ids read by the cron job that is running
    letta,             \* remote Letta API: the agents it holds, [id, config]
    lettaLog,          \* the create / update calls the remote API accepted, in order
    pc,                \* per process: the statement the request is about to run
    req,               \* per process: the request it handles
    loc,               \* per process: the handler's local variables
    res,               \* per process: the response of the finished request
    budget,            \* number of requests that may still be issued
    proceeded          \* per idempotency key: how many requests ensureIdempotency let through

storeVars == <<af_templates, af_versions, agent_instances, agent_migrations,
               request_dedup, user_profiles, storage, upgrade_jobs>>
remoteVars == <<letta, lettaLog>>
procVars == <<pc, req, loc, res, budget>>
cronVars == <<upgrade_jobs_deadletter, cronBatch>>
vars == <<storeVars, remoteVars, procVars, proceeded, cronVars>>

NoRequest == [kind |-> "none"]
NoLocals == [kind |-> "none"]
NoResponse == [status |-> 0, error |-> ""]
\* jsonResponse(body, status): the status and, for a failure, the error text.
Response(status, error) == [status |-> status, error |-> error]
OkResponse == Response(200, "")

Init ==
    /\ af_templates = {}
    /\ af_versions = {}
    /\ agent_instances = {}
    /\ agent_migrations = <<>>
    /\ request_dedup = {}
    /\ user_profiles = {}
    /\ storage = {}
    /\ upgrade_jobs = <<>>
    /\ upgrade_jobs_deadletter = <<>>
    /\ cronBatch = {}
    /\ letta = {}
    /\ lettaLog = <<>>
    /\ pc = [p \in Procs |-> "idle"]
    /\ req = [p \in Procs |-> NoRequest]
    /\ loc = [p \in Procs |-> NoLocals]
    /\ res = [p \in Procs |-> NoResponse]
    /\ budget = MaxRequests
    /\ proceeded = [k \in KeyOpts \ {Undefined} |-> 0]

\* A new request is taken by the first idle process (process numbers are
\* not visible to the program).
CanStart(p) ==
    /\ pc[p] = "idle"
    /\ budget > 0
    /\ \A q \in Procs : q < p => pc[q] # "idle"

\* The request ends: the handler returns jsonResponse(...).
Finish(p, response) ==
    /\ pc' = [pc EXCEPT ![p] = "done"]
    /\ res' = [res EXCEPT ![p] = response]

Goto(p, label) ==
    /\ pc' = [pc EXCEPT ![p] = label]
    /\ res' = res

(***************************************************************************)
(* Store statements.                                                       *)
(***************************************************************************)
\* Mutant of DedupInsert: request_dedup without its primary key.
DedupInsertNoKey(table, row) == [error |-> "", rows |-> table \cup {row}]

\* insert into request_dedup: the primary key rejects a second row for the key.
DedupInsert(table, row) ==
    IF \E d \in table : d.idempotency_key = row.idempotency_key
    THEN [error |-> "23505", rows |-> table]
    ELSE [error |-> "", rows |-> table \cup {row}]

\* Mutant of VersionsInsert: an upsert, which replaces the stored row.
VersionsUpsert(table, row) ==
    [error |-> "",
     rows |-> {r \in table : ~(r.template_id = row.template_id /\ r.version = row.version)}
              \cup {row}]

\* insert into af_versions: af_versions_pk rejects a second row for
\* (template_id, version).
VersionsInsert(table, row) ==
    IF \E r \in table : r.template_id = row.template_id /\ r.version = row.version
    THEN [error |-> "23505", rows |-> table]
    ELSE [error |-> "", rows |-> table \cup {row}]

\* Mutant of ResetLatest: the filter matches no row.
ResetLatestNoRow(table, templateId, version) == table

\* Mutant of ResetLatest: the version filter is dropped.
ResetLatestEveryRow(table, templateId, version) ==
    { IF r.template_id = templateId THEN [r EXCEPT !.is_latest = FALSE] ELSE r : r \in table }

\* update af_versions set is_latest = false
\* where template_id = templateId and version <> version.
ResetLatest(table, templateId, version) ==
    { IF r.template_id = templateId /\ r.version # version
      THEN [r EXCEPT !.is_latest = FALSE]
      ELSE r : r \in table }

\* storage upload with upsert: true.
StorageUpload(bucket, path, content) ==
    {o \in bucket : o.path # path} \cup {[path |-> path, content |-> content]}

(***************************************************************************)
(* ensureIdempotency(key, payloadHashSource).                              *)
(***************************************************************************)
HasKey(key) == key # Undefined /\ key # ""

\* Where a handler continues once ensureIdempotency has returned.
AfterGuard(r) ==
    CASE r.kind = "publish" ->
            IF ValidateAgentFile(ParseAgentFile(r.rawBody))
            THEN [pc |-> "pub_list", res |-> NoResponse]
            ELSE [pc |-> "done", res |-> Response(400, "Validation failed")]
      [] r.kind = "create" -> [pc |-> "cre_resolve", res |-> NoResponse]
      [] r.kind = "upgrade" -> [pc |-> "upg_select", res |-> NoResponse]

\* History of a request with an idempotency key, kept for the properties:
\* what request_dedup held for the key when the request arrived ("fresh",
\* "same" fingerprint, "different" fingerprint), and whether another
\* request with the same key was in flight at any time of this one.
KeyAtStart(r) ==
    IF ~HasKey(r.key) THEN "nokey"
    ELSE IF \A d \in request_dedup : d.idempotency_key # r.key THEN "fresh"
    ELSE IF \E d \in request_dedup :
                d.idempotency_key = r.key /\ d.checksum = Sha256(r.hashSource)
    THEN "same"
    ELSE "different"

InFlightWithKey(key) ==
    {q \in Procs : pc[q] \notin {"idle", "done"} /\ req[q].key = key}

\* The handler's entry up to its first store statement.
Enter(p, r) ==
    /\ budget' = budget - 1
    /\ req' = [q \in Procs |->
                 IF q = p
                 THEN r @@ [keyAtStart |-> KeyAtStart(r),
                            raced |-> HasKey(r.key) /\ InFlightWithKey(r.key) # {}]
                 ELSE IF HasKey(r.key) /\ q \in InFlightWithKey(r.key)
                 THEN [req[q] EXCEPT !.raced = TRUE]
                 ELSE req[q]]
    /\ loc' = loc
    /\ IF HasKey(r.key)
       THEN Goto(p, "idem_select")
       ELSE /\ pc' = [pc EXCEPT ![p] = AfterGuard(r).pc]
            /\ res' = [res EXCEPT ![p] = AfterGuard(r).res]

\* Mutant of GuardCheck: a request whose fingerprint equals the stored one
\* goes on like a first request.
GuardCheckSameProceeds(data, checksum) ==
    IF \E d \in data : d.checksum # checksum THEN "conflict" ELSE "insert"

\* Mutant of GuardCheck: a stored record is never compared.
GuardCheckNoCompare(data, checksum) ==
    IF data = {} THEN "insert" ELSE "duplicate"

\* What ensureIdempotency does with the rows selected for the key: throw
\* IdempotencyError (re-used with different payload / Duplicate request)
\* or go on to insert.
GuardCheck(data, checksum) ==
    IF data # {}
    THEN IF \E d \in data : d.checksum # checksum THEN "conflict" ELSE "duplicate"
    ELSE "insert"

\* select checksum from request_dedup where idempotency_key = key
IdemSelect(p) ==
    /\ pc[p] = "idem_select"
    /\ LET data == {d \in request_dedup : d.idempotency_key = req[p].key}
           check == GuardCheck(data, Sha256(req[p].hashSource))
       IN CASE check = "conflict" ->
                 Finish(p, Response(409, "Idempotency key re-used with different payload"))
            [] check = "duplicate" -> Finish(p, Response(409, "Duplicate request"))
            [] check = "insert" -> Goto(p, "idem_insert")
    /\ UNCHANGED <<cronVars, storeVars, remoteVars, req, loc, budget, proceeded>>

\* insert into request_dedup (idempotency_key, checksum); an insert error
\* is thrown as it is and reaches the handler's catch as a plain error.
IdemInsert(p) ==
    /\ pc[p] = "idem_insert"
    /\ LET ins == DedupInsert(request_dedup,
                     [idempotency_key |-> req[p].key, checksum |-> Sha256(req[p].hashSource)])
       IN IF ins.error # ""
          THEN /\ Finish(p, Response(500, "duplicate key value violates request_dedup_pkey"))
               /\ UNCHANGED <<cronVars, request_dedup, proceeded>>
          ELSE /\ request_dedup' = ins.rows
               /\ proceeded' = [proceeded EXCEPT ![req[p].key] = @ + 1]
               /\ pc' = [pc EXCEPT ![p] = AfterGuard(req[p]).pc]
               /\ res' = [res EXCEPT ![p] = AfterGuard(req[p]).res]
    /\ UNCHANGED <<cronVars, af_templates, af_versions, agent_instances, agent_migrations,
                   user_profiles, storage, upgrade_jobs, remoteVars, req, loc, budget>>

(***************************************************************************)
(* POST templates/publish: handlePublishTemplate(rawBody, idempotencyKey). *)
(***************************************************************************)
VersionsOf(templateId) == {r \in af_versions : r.template_id = templateId}

PublishRequest(rawBody, key) ==
    [kind |-> "publish", rawBody |-> rawBody, key |-> key, hashSource |-> rawBody,
     \* history: whether (template_id, version) was stored when the request arrived
     dupAtStart |-> /\ ~ParseThrows(rawBody)
                    /\ \E r \in af_versions :
                          /\ r.template_id = ParseAgentFile(rawBody).template.id
                          /\ r.version = ParseAgentFile(rawBody).template.version]

\* parseAgentFile, then ensureIdempotency, then validateAgentFile.
PublishStart(p) ==
    /\ CanStart(p)
    /\ \E rawBody \in RawBodies, key \in KeyOpts :
          IF ParseThrows(rawBody)
          THEN /\ budget' = budget - 1
               /\ req' = [req EXCEPT ![p] = PublishRequest(rawBody, key)
                                              @@ [keyAtStart |-> "unread", raced |-> FALSE]]
               /\ loc' = loc
               /\ Finish(p, Response(500, "Empty body"))
          ELSE Enter(p, PublishRequest(rawBody, key))
    /\ UNCHANGED <<cronVars, storeVars, remoteVars, proceeded>>

\* select version from af_versions where template_id = templateId, then
\* assessSemver on the versions listed.
PubList(p) ==
    /\ pc[p] = "pub_list"
    /\ LET af == ParseAgentFile(req[p].rawBody)
           existingVersions == {r.version : r \in VersionsOf(af.template.id)}
           semverResult == AssessSemver(af.template.version, existingVersions)
       IN CASE semverResult = "duplicate" -> Finish(p, Response(400, "Version already published"))
            [] semverResult = "regressive" -> Finish(p, Response(400, "Version is lower than latest"))
            [] semverResult = "throws" -> Finish(p, Response(500, "Invalid Version"))
            [] semverResult = "allowed" -> Goto(p, "pub_upsert")
    /\ UNCHANGED <<cronVars, storeVars, remoteVars, req, loc, budget, proceeded>>

\* upsert into af_templates (id)
PubUpsertTemplate(p) ==
    /\ pc[p] = "pub_upsert"
    /\ af_templates' = af_templates \cup {ParseAgentFile(req[p].rawBody).template.id}
    /\ Goto(p, "pub_insert")
    /\ UNCHANGED <<cronVars, af_versions, agent_instances, agent_migrations, request_dedup,
                   user_profiles, storage, upgrade_jobs, remoteVars, req, loc, budget, proceeded>>

\* insert into af_versions (..., is_latest: true); 23505 is answered with
\* 409 "Version already exists".
PubInsert(p) ==
    /\ pc[p] = "pub_insert"
    /\ LET af == ParseAgentFile(req[p].rawBody)
           ins == VersionsInsert(af_versions,
                     [template_id |-> af.template.id, version |-> af.template.version,
                      af_source |-> req[p].rawBody, checksum |-> Sha256(req[p].rawBody),
                      is_latest |-> TRUE])
       IN IF ins.error # ""
          THEN /\ Finish(p, Response(409, "Version already exists"))
               /\ UNCHANGED af_versions
          ELSE /\ af_versions' = ins.rows
               /\ Goto(p, "pub_reset")
    /\ UNCHANGED <<cronVars, af_templates, agent_instances, agent_migrations, request_dedup,
                   user_profiles, storage, upgrade_jobs, remoteVars, req, loc, budget, proceeded>>

\* update af_versions set is_latest = false on the other versions
PubReset(p) ==
    /\ pc[p] = "pub_reset"
    /\ LET af == ParseAgentFile(req[p].rawBody)
       IN af_versions' = ResetLatest(af_versions, af.template.id, af.template.version)
    /\ Goto(p, "pub_cache")
    /\ UNCHANGED <<cronVars, af_templates, agent_instances, agent_migrations, request_dedup,
                   user_profiles, storage, upgrade_jobs, remoteVars, req, loc, budget, proceeded>>

\* cacheAgentFile, then the 200 response.
PubCache(p) ==
    /\ pc[p] = "pub_cache"
    /\ LET af == ParseAgentFile(req[p].rawBody)
       IN storage' = StorageUpload(storage, af.template.id \o "/" \o af.template.version \o ".af",
                                   req[p].rawBody)
    /\ Finish(p, OkResponse)
    /\ UNCHANGED <<cronVars, af_templates, af_versions, agent_instances, agent_migrations, request_dedup,
                   user_profiles, upgrade_jobs, remoteVars, req, loc, budget, proceeded>>

(***************************************************************************)
(* resolveTemplateVersion(templateId, version, useLatest).                 *)
(***************************************************************************)
\* JavaScript truthiness of an optional string / flag.
Truthy(x) == x # Undefined /\ x # "" /\ x # "false"

\* a ?? b
Coalesce(a, b) == IF a = Undefined THEN b ELSE a

\* The result of resolveTemplateVersion on the rows of af_versions: the
\* error thrown ("" for none) and the raw source of the row selected.
\* maybeSingle() fails when the query matches more than one row.
ResolveTemplateVersion(table, templateId, version, useLatest) ==
    LET matching == IF Truthy(version)
                    THEN {r \in table : r.template_id = templateId /\ r.version = version}
                    ELSE {r \in table : r.template_id = templateId /\ r.is_latest}
    IN IF ~Truthy(version) /\ ~Truthy(useLatest)
       THEN [error |-> "Either version or use_latest must be provided", raw |-> ""]
       ELSE IF Cardinality(matching) > 1
       THEN [error |-> "JSON object requested, multiple (or no) rows returned", raw |-> ""]
       ELSE IF matching = {}
       THEN [error |-> "Template version not found", raw |-> ""]
       ELSE [error |-> "", raw |-> (CHOOSE r \in matching : TRUE).af_source]

(***************************************************************************)
(* MigrationPlanner: buildMigrationPlan(currentVersion, targetVersion,     *)
(* migrations).                                                            *)
(***************************************************************************)
\* Mutant of FindFrom: the index of the last match.
FindFromLast(migrations, version) ==
    IF \E i \in 1..Len(migrations) : migrations[i].from = version
    THEN CHOOSE i \in 1..Len(migrations) :
            /\ migrations[i].from = version
            /\ \A j \in (i + 1)..Len(migrations) : migrations[j].from # version
    ELSE 0

\* migrations.find((m) => m.from === version): the index of the first
\* match, 0 for none.
FindFrom(migrations, version) ==
    IF \E i \in 1..Len(migrations) : migrations[i].from = version
    THEN CHOOSE i \in 1..Len(migrations) :
            /\ migrations[i].from = version
            /\ \A j \in 1..(i - 1) : migrations[j].from # version
    ELSE 0

\* Mutant of PlanWalk: a version met again is reported as a missing step.
RECURSIVE PlanWalkNoCircular(_, _, _, _, _)
PlanWalkNoCircular(version, targetVersion, migrations, guard, path) ==
    IF version = targetVersion THEN [error |-> "", steps |-> path, guard |-> guard]
    ELSE IF version \in guard \/ FindFrom(migrations, version) = 0
    THEN [error |-> "No migration step found", steps |-> <<>>, guard |-> guard]
    ELSE PlanWalkNoCircular(migrations[FindFrom(migrations, version)].to, targetVersion,
                            migrations, guard \cup {version},
                            path \o migrations[FindFrom(migrations, version)].steps)

\* The while loop of buildMigrationPlan: guard is the Set of the versions
\* the loop has left, path the steps collected so far; the result carries
\* the error thrown ("" for none), the steps and the guard at the end.
RECURSIVE PlanWalk(_, _, _, _, _)
PlanWalk(version, targetVersion, migrations, guard, path) ==
    IF version = targetVersion THEN [error |-> "", steps |-> path, guard |-> guard]
    ELSE IF version \in guard
    THEN [error |-> "Circular migration plan detected", steps |-> <<>>, guard |-> guard]
    ELSE IF FindFrom(migrations, version) = 0
    THEN [error |-> "No migration step found", steps |-> <<>>, guard |-> guard]
    ELSE PlanWalk(migrations[FindFrom(migrations, version)].to, targetVersion, migrations,
                  guard \cup {version},
                  path \o migrations[FindFrom(migrations, version)].steps)

BuildMigrationPlan(currentVersion, targetVersion, migrations) ==
    PlanWalk(currentVersion, targetVersion, migrations, {}, <<>>)

(***************************************************************************)
(* DryRunEngine: performDryRun(plan, currentConfig, userId).               *)
(* A LettaAgentConfig is a function from the JSON pointer of each          *)
(* top-level field to its value.                                           *)
(***************************************************************************)
ConfigPaths == {"/name", "/model", "/embedding", "/model_endpoint",
                "/embedding_endpoint", "/system_prompt"}

\* `${ZUPLO_BASE_URL}/api/v1/agents/${userId}/messages`
BillingEndpoint(userId) == ZUPLO_BASE_URL \o "/api/v1/agents/" \o userId \o "/messages"

\* fast-json-patch applyOperation on a top-level field, without validation.
ApplyOperation(config, operation) ==
    CASE operation.op \in {"add", "replace"} ->
            [config EXCEPT ![operation.path] = operation.value]
      [] operation.op = "remove" -> [config EXCEPT ![operation.path] = Undefined]
      [] OTHER -> config

RECURSIVE ApplyPatch(_, _)
ApplyPatch(config, patch) ==
    IF patch = <<>> THEN config
    ELSE ApplyPatch(ApplyOperation(config, Head(patch)), Tail(patch))

\* Mutant of DryRunConfig: the patch of every step is applied, whatever
\* the type of the step.
RECURSIVE DryRunConfigEveryStep(_, _)
DryRunConfigEveryStep(plan, config) ==
    IF plan = <<>> THEN config
    ELSE DryRunConfigEveryStep(Tail(plan), ApplyPatch(config, Head(plan).patch))

RECURSIVE DryRunConfig(_, _)
DryRunConfig(plan, config) ==
    IF plan = <<>> THEN config
    ELSE DryRunConfig(Tail(plan),
                      IF Head(plan).type = "json_patch"
                      THEN ApplyPatch(config, Head(plan).patch)
                      ELSE config)

RECURSIVE DryRunWarnings(_)
DryRunWarnings(plan) ==
    IF plan = <<>> THEN <<>>
    ELSE (IF Head(plan).type = "script"
          THEN << "Script step executed in dry-run only: "
                  \o Coalesce(Head(plan).description, "no description") >>
          ELSE <<>>) \o DryRunWarnings(Tail(plan))

\* The diff performDryRun returns: the two entries it pushes after the loop.
DryRunDiff(plan, endpoint) ==
    << [op |-> "set", path |-> "/model_endpoint", value |-> endpoint],
       [op |-> "set", path |-> "/embedding_endpoint", value |-> endpoint] >>

\* Mutant of ForceEndpoints: the working copy keeps what the patches left.
ForceEndpointsNoop(config, endpoint) == config

\* The endpoint fields of the working copy are set after the loop.
ForceEndpoints(config, endpoint) ==
    [config EXCEPT !["/model_endpoint"] = endpoint, !["/embedding_endpoint"] = endpoint]

PerformDryRun(plan, currentConfig, userId) ==
    [diff |-> DryRunDiff(plan, BillingEndpoint(userId)),
     warnings |-> DryRunWarnings(plan),
     updatedConfig |-> ForceEndpoints(DryRunConfig(plan, currentConfig), BillingEndpoint(userId))]

\* buildAgentConfigFromTemplate(agentFile, userId), then config.name.
BuildAgentConfigFromTemplate(agentFile, userId, agentName) ==
    [path \in ConfigPaths |->
        CASE path = "/name" -> agentName
          [] path = "/model" -> agentFile.engine.model
          [] path = "/embedding" -> agentFile.engine.embedding
          [] path = "/model_endpoint" -> BillingEndpoint(userId)
          [] path = "/embedding_endpoint" -> BillingEndpoint(userId)
          [] path = "/system_prompt" -> agentFile.persona.system_prompt]

\* logMigration's row.
MigrationRow(agentId, fromVersion, toVersion, dryRun, plan, diff) ==
    [agent_id |-> agentId, from_version |-> fromVersion, to_version |-> toVersion,
     dry_run |-> dryRun, plan |-> plan, diff |-> diff,
     status |-> IF dryRun THEN "dry_run" ELSE "applied"]

(***************************************************************************)
(* POST agents/create: handleCreateAgent(payload, userId, idempotencyKey). *)
(***************************************************************************)
\* The create payloads of the model: the selector is a version (the smoke
\* test's request) or the use_latest flag.
CreatePayloads ==
    { [template_id |-> TemplateId, version |-> "1.0.0", use_latest |-> Undefined],
      [template_id |-> TemplateId, version |-> Undefined, use_latest |-> "true"] }

\* JSON.stringify({ payload, userId })
StringifyCreate(payload, userId) ==
    "{payload:{template_id:" \o payload.template_id \o ",version:" \o payload.version
        \o ",use_latest:" \o payload.use_latest \o "},userId:" \o userId \o "}"

CreateRequest(payload, userId, key) ==
    [kind |-> "create", payload |-> payload, userId |-> userId, key |-> key,
     hashSource |-> StringifyCreate(payload, userId)]

CreateStart(p) ==
    /\ CanStart(p)
    /\ \E payload \in CreatePayloads, key \in KeyOpts :
          Enter(p, CreateRequest(payload, "u1", key))
    /\ UNCHANGED <<cronVars, storeVars, remoteVars, proceeded>>

\* resolveTemplateVersion(payload.template_id, payload.version,
\* payload.use_latest ?? false), validateTemplateVariables (the sample
\* schema requires no variable), buildAgentConfigFromTemplate.
CreResolve(p) ==
    /\ pc[p] = "cre_resolve"
    /\ LET resolved == ResolveTemplateVersion(af_versions, req[p].payload.template_id,
                           req[p].payload.version, Coalesce(req[p].payload.use_latest, "false"))
       IN IF resolved.error # ""
          THEN /\ Finish(p, Response(500, resolved.error))
               /\ loc' = loc
          ELSE /\ loc' = [loc EXCEPT ![p] =
                     [kind |-> "create", raw |-> resolved.raw,
                      config |-> BuildAgentConfigFromTemplate(ParseAgentFile(resolved.raw),
                                                              req[p].userId, Undefined),
                      agentId |-> Undefined]]
               /\ Goto(p, "cre_letta")
    /\ UNCHANGED <<cronVars, storeVars, remoteVars, req, budget, proceeded>>

\* The id the remote API gives the next agent it creates.
NextAgentId == "agent-" \o ToString(Cardinality(letta) + 1)

\* createLettaAgent(config): POST /agents
CreLetta(p) ==
    /\ pc[p] = "cre_letta"
    /\ letta' = letta \cup {[id |-> NextAgentId, config |-> loc[p].config]}
    /\ lettaLog' = Append(lettaLog, [op |-> "create", id |-> NextAgentId, config |-> loc[p].config])
    /\ loc' = [loc EXCEPT ![p].agentId = NextAgentId]
    /\ Goto(p, "cre_upsert")
    /\ UNCHANGED <<cronVars, storeVars, req, budget, proceeded>>

\* upsert into agent_instances
CreUpsert(p) ==
    /\ pc[p] = "cre_upsert"
    /\ agent_instances' =
          {a \in agent_instances : a.agent_id # loc[p].agentId} \cup
          {[agent_id |-> loc[p].agentId, user_id |-> req[p].userId,
            template_id |-> ParseAgentFile(loc[p].raw).template.id,
            version |-> ParseAgentFile(loc[p].raw).template.version]}
    /\ Goto(p, "cre_profile")
    /\ UNCHANGED <<cronVars, af_templates, af_versions, agent_migrations, request_dedup, user_profiles,
                   storage, upgrade_jobs, remoteVars, req, loc, budget, proceeded>>

\* upsertUserProfileAgent: select id from user_profiles where id = userId
CreProfileSelect(p) ==
    /\ pc[p] = "cre_profile"
    /\ IF \E u \in user_profiles : u.id = req[p].userId
       THEN Goto(p, "cre_profile_update")
       ELSE Goto(p, "cre_profile_insert")
    /\ UNCHANGED <<cronVars, storeVars, remoteVars, req, loc, budget, proceeded>>

\* update user_profiles set letta_agent_id = agentId where id = userId
CreProfileUpdate(p) ==
    /\ pc[p] = "cre_profile_update"
    /\ user_profiles' = { IF u.id = req[p].userId
                          THEN [u EXCEPT !.letta_agent_id = loc[p].agentId]
                          ELSE u : u \in user_profiles }
    /\ Finish(p, OkResponse)
    /\ UNCHANGED <<cronVars, af_templates, af_versions, agent_instances, agent_migrations, request_dedup,
                   storage, upgrade_jobs, remoteVars, req, loc, budget, proceeded>>

\* insert into user_profiles (id, letta_agent_id); user_profiles_pkey
\* rejects a second row for the user.
CreProfileInsert(p) ==
    /\ pc[p] = "cre_profile_insert"
    /\ IF \E u \in user_profiles : u.id = req[p].userId
       THEN /\ Finish(p, Response(500, "duplicate key value violates user_profiles_pkey"))
            /\ UNCHANGED user_profiles
       ELSE /\ user_profiles' = user_profiles \cup
                    {[id |-> req[p].userId, letta_agent_id |-> loc[p].agentId]}
            /\ Finish(p, OkResponse)
    /\ UNCHANGED <<cronVars, af_templates, af_versions, agent_instances, agent_migrations, request_dedup,
                   storage, upgrade_jobs, remoteVars, req, loc, budget, proceeded>>

(***************************************************************************)
(* POST agents/:id/upgrade: handleUpgradeAgent(agentId, payload, userId,   *)
(* idempotencyKey).                                                        *)
(***************************************************************************)
\* Every UpgradeAgentInput over the optional fields the handler reads.
AllUpgradePayloads ==
    { [target_version |-> t, use_latest |-> u, dry_run |-> d, use_queue |-> q] :
        t \in {Undefined, "1.0.1"}, u \in {Undefined, "true", "false"},
        d \in {Undefined, "true", "false"}, q \in {Undefined, "true"} }

\* The upgrade payloads sent next to publishes and creates: the requests of
\* the smoke test and the README (latest version, each way of execution).
UpgradePayloads ==
    {pl \in AllUpgradePayloads :
        /\ pl.target_version = Undefined /\ pl.use_latest = "true"
        /\ \/ pl.dry_run = "true" /\ pl.use_queue = Undefined
           \/ pl.dry_run = "false"}

\* The X-User-Id header of an upgrade request; the router passes an absent
\* header on as undefined.
UpgradeUsers == {"u1", "u2", Undefined}

\* JSON.stringify({ payload, agentId })
StringifyUpgrade(payload, agentId) ==
    "{payload:{target_version:" \o payload.target_version \o ",use_latest:" \o payload.use_latest
        \o ",dry_run:" \o payload.dry_run \o ",use_queue:" \o payload.use_queue
        \o "},agentId:" \o agentId \o "}"

UpgradeRequest(agentId, payload, userId, key) ==
    [kind |-> "upgrade", agentId |-> agentId, payload |-> payload, userId |-> userId,
     key |-> key, hashSource |-> StringifyUpgrade(payload, agentId)]

UpgradeStart(p) ==
    /\ CanStart(p)
    /\ \E payload \in UpgradePayloads, userId \in {"u1", "u2"}, key \in KeyOpts :
          Enter(p, UpgradeRequest("agent-1", payload, userId, key))
    /\ UNCHANGED <<cronVars, storeVars, remoteVars, proceeded>>

\* select ... from agent_instances where agent_id = agentId, then the
\* ownership check.
UpgSelect(p) ==
    /\ pc[p] = "upg_select"
    /\ LET rows == {a \in agent_instances : a.agent_id = req[p].agentId}
           agentRecord == CHOOSE a \in rows : TRUE
       IN IF rows = {}
          THEN /\ Finish(p, Response(404, "Agent not found"))
               /\ loc' = loc
          ELSE IF Truthy(req[p].userId) /\ req[p].userId # agentRecord.user_id
          THEN /\ Finish(p, Response(403, "Forbidden"))
               /\ loc' = loc
          ELSE /\ loc' = [loc EXCEPT ![p] =
                     [kind |-> "upgrade", agentRecord |-> agentRecord, toVersion |-> Undefined,
                      plan |-> <<>>, dryRunResult |-> [diff |-> <<>>, warnings |-> <<>>,
                                                       updatedConfig |-> <<>>]]]
               /\ Goto(p, "upg_resolve")
    /\ UNCHANGED <<cronVars, storeVars, remoteVars, req, budget, proceeded>>

\* resolveTemplateVersion(agentRecord.template_id, payload.target_version,
\* payload.use_latest ?? true), then buildMigrationPlan.
UpgResolve(p) ==
    /\ pc[p] = "upg_resolve"
    /\ LET resolved == ResolveTemplateVersion(af_versions, loc[p].agentRecord.template_id,
                           req[p].payload.target_version,
                           Coalesce(req[p].payload.use_latest, "true"))
           target == ParseAgentFile(resolved.raw)
           plan == BuildMigrationPlan(loc[p].agentRecord.version, target.template.version,
                                      target.migrations)
       IN IF resolved.error # ""
          THEN /\ Finish(p, Response(500, resolved.error))
               /\ loc' = loc
          ELSE IF plan.error # ""
          THEN /\ Finish(p, Response(500, plan.error))
               /\ loc' = loc
          ELSE /\ loc' = [loc EXCEPT ![p].toVersion = target.template.version,
                                     ![p].plan = plan.steps]
               /\ Goto(p, "upg_fetch")
    /\ UNCHANGED <<cronVars, storeVars, remoteVars, req, budget, proceeded>>

\* Mutant of Dispatch: a request without dry_run is not a dry run.
DispatchDefaultApply(payload) ==
    IF Truthy(Coalesce(payload.dry_run, "false")) THEN "upg_log_dry"
    ELSE IF Truthy(payload.use_queue) THEN "upg_enqueue"
    ELSE "upg_update"

\* Mutant of Dispatch: use_queue is not looked at.
DispatchIgnoresQueue(payload) ==
    IF Truthy(Coalesce(payload.dry_run, "true")) THEN "upg_log_dry" ELSE "upg_update"

\* Mutant of Dispatch: the queue is looked at before the dry-run flag.
DispatchQueueFirst(payload) ==
    IF Truthy(payload.use_queue) THEN "upg_enqueue"
    ELSE IF Truthy(Coalesce(payload.dry_run, "true")) THEN "upg_log_dry"
    ELSE "upg_update"

\* UpgradeDispatcher: if (payload.dry_run ?? true) ... if (payload.use_queue)
\* ... else apply.
Dispatch(payload) ==
    IF Truthy(Coalesce(payload.dry_run, "true")) THEN "upg_log_dry"
    ELSE IF Truthy(payload.use_queue) THEN "upg_enqueue"
    ELSE "upg_update"

\* fetchLettaAgent(agentId): GET /agents/:id, then performDryRun and the
\* choice between dry run, queue and synchronous apply.
UpgFetch(p) ==
    /\ pc[p] = "upg_fetch"
    /\ LET found == {a \in letta : a.id = req[p].agentId}
           currentConfig == (CHOOSE a \in found : TRUE).config
       IN IF found = {}
          THEN /\ Finish(p, Response(500, "Failed to fetch agent"))
               /\ loc' = loc
          ELSE /\ loc' = [loc EXCEPT ![p].dryRunResult =
                     PerformDryRun(loc[p].plan, currentConfig, loc[p].agentRecord.user_id)]
               /\ Goto(p, Dispatch(req[p].payload))
    /\ UNCHANGED <<cronVars, storeVars, remoteVars, req, budget, proceeded>>

\* logMigration(..., true, plan, diff), then the dry-run response.
UpgLogDryRun(p) ==
    /\ pc[p] = "upg_log_dry"
    /\ agent_migrations' = Append(agent_migrations,
          MigrationRow(req[p].agentId, loc[p].agentRecord.version, loc[p].toVersion,
                       TRUE, loc[p].plan, loc[p].dryRunResult.diff))
    /\ Finish(p, OkResponse)
    /\ UNCHANGED <<cronVars, af_templates, af_versions, agent_instances, request_dedup, user_profiles,
                   storage, upgrade_jobs, remoteVars, req, loc, budget, proceeded>>

\* enqueueUpgradeJob: rpc ams_enqueue_upgrade -> pgmq.send('upgrade_jobs', job)
UpgEnqueue(p) ==
    /\ pc[p] = "upg_enqueue"
    /\ upgrade_jobs' = Append(upgrade_jobs,
          [agent_id |-> req[p].agentId, user_id |-> loc[p].agentRecord.user_id,
           from_version |-> loc[p].agentRecord.version, to_version |-> loc[p].toVersion,
           plan |-> loc[p].plan])
    /\ Finish(p, OkResponse)
    /\ UNCHANGED <<cronVars, af_templates, af_versions, agent_instances, agent_migrations, request_dedup,
                   user_profiles, storage, remoteVars, req, loc, budget, proceeded>>

\* Mutant of AfterUpdate: the status of the response is not looked at.
AfterUpdateIgnoringStatus(ok) == "upg_set_version"

\* updateLettaAgent: if (!response.ok) throw, else return to the handler,
\* whose next statement is the update of agent_instances.
AfterUpdate(ok) == IF ok THEN "upg_set_version" ELSE "throw"

\* updateLettaAgent(agentId, updatedConfig): PATCH /agents/:id, answered
\* with response.ok = ok.  A request the remote API refuses leaves the
\* agent as it was; the handler's catch answers a thrown error with 500.
RemoteUpdate(p, ok) ==
    /\ pc[p] = "upg_update"
    /\ letta' = IF ok
                THEN { IF a.id = req[p].agentId
                       THEN [a EXCEPT !.config = loc[p].dryRunResult.updatedConfig]
                       ELSE a : a \in letta }
                ELSE letta
    /\ lettaLog' = Append(lettaLog, [op |-> IF ok THEN "update" ELSE "update_failed",
                                     id |-> req[p].agentId,
                                     config |-> loc[p].dryRunResult.updatedConfig])
    /\ IF AfterUpdate(ok) = "throw"
       THEN Finish(p, Response(500, "Failed to update agent"))
       ELSE Goto(p, AfterUpdate(ok))
    /\ UNCHANGED <<cronVars, storeVars, req, loc, budget, proceeded>>

\* The remote API accepts the update.
UpgUpdate(p) == RemoteUpdate(p, TRUE)

\* update agent_instances set version = target version where agent_id = agentId
UpgSetVersion(p) ==
    /\ pc[p] = "upg_set_version"
    /\ agent_instances' = { IF a.agent_id = req[p].agentId
                            THEN [a EXCEPT !.version = loc[p].toVersion]
                            ELSE a : a \in agent_instances }
    /\ Goto(p, "upg_log_applied")
    /\ UNCHANGED <<cronVars, af_templates, af_versions, agent_migrations, request_dedup, user_profiles,
                   storage, upgrade_jobs, remoteVars, req, loc, budget, proceeded>>

\* logMigration(..., false, plan, diff), then the response.
UpgLogApplied(p) ==
    /\ pc[p] = "upg_log_applied"
    /\ agent_migrations' = Append(agent_migrations,
          MigrationRow(req[p].agentId, loc[p].agentRecord.version, loc[p].toVersion,
                       FALSE, loc[p].plan, loc[p].dryRunResult.diff))
    /\ Finish(p, OkResponse)
    /\ UNCHANGED <<cronVars, af_templates, af_versions, agent_instances, request_dedup, user_profiles,
                   storage, upgrade_jobs, remoteVars, req, loc, budget, proceeded>>

\* The response has been sent; the process can take the next request.
Return(p) ==
    /\ pc[p] = "done"
    /\ pc' = [pc EXCEPT ![p] = "idle"]
    /\ req' = [req EXCEPT ![p] = NoRequest]
    /\ loc' = [loc EXCEPT ![p] = NoLocals]
    /\ res' = [res EXCEPT ![p] = NoResponse]
    /\ UNCHANGED <<cronVars, storeVars, remoteVars, budget, proceeded>>

\* One statement of the request that process p handles.
Handle(p) ==
    \/ PublishStart(p)
    \/ IdemSelect(p)
    \/ IdemInsert(p)
    \/ PubList(p)
    \/ PubUpsertTemplate(p)
    \/ PubInsert(p)
    \/ PubReset(p)
    \/ PubCache(p)
    \/ CreateStart(p)
    \/ CreResolve(p)
    \/ CreLetta(p)
    \/ CreUpsert(p)
    \/ CreProfileSelect(p)
    \/ CreProfileUpdate(p)
    \/ CreProfileInsert(p)
    \/ UpgradeStart(p)
    \/ UpgSelect(p)
    \/ UpgResolve(p)
    \/ UpgFetch(p)
    \/ UpgLogDryRun(p)
    \/ UpgEnqueue(p)
    \/ UpgUpdate(p)
    \/ UpgSetVersion(p)
    \/ UpgLogApplied(p)
    \/ Return(p)

Next == \E p \in Procs : Handle(p)

Spec == Init /\ [][Next]_vars

\* Requests issued one after the other: a single process, which takes the
\* next request when it has answered the one before.
NextSeq == Handle(1)

SpecSeq == Init /\ [][NextSeq]_vars

(***************************************************************************)
(* Upgrades of an existing instance.  The database is the one left by      *)
(* publish 1.0.0, create (user u1, version 1.0.0), publish 1.0.1: the      *)
(* template has two versions, 1.0.1 is the latest and declares the         *)
(* migration 1.0.0 -> 1.0.1 (variant A: a patch step, variant B: a script  *)
(* step and a patch step), and agent-1 runs 1.0.0.  Upgrade requests       *)
(* carry every combination of target_version, dry_run and use_queue, from  *)
(* the owner, from another user and without X-User-Id.                     *)
(***************************************************************************)
VersionRow(rawBody, isLatest) ==
    [template_id |-> ParseAgentFile(rawBody).template.id,
     version |-> ParseAgentFile(rawBody).template.version,
     af_source |-> rawBody, checksum |-> Sha256(rawBody), is_latest |-> isLatest]

InitUpgrade ==
    /\ af_templates = {TemplateId}
    /\ \E target \in {"T@1.0.1#A", "T@1.0.1#B"} :
          /\ af_versions = {VersionRow("T@1.0.0#A", FALSE), VersionRow(target, TRUE)}
          /\ storage = {[path |-> "T/1.0.0.af", content |-> "T@1.0.0#A"],
                        [path |-> "T/1.0.1.af", content |-> target]}
    /\ agent_instances = {[agent_id |-> "agent-1", user_id |-> "u1",
                           template_id |-> TemplateId, version |-> "1.0.0"]}
    /\ agent_migrations = <<>>
    /\ request_dedup = {}
    /\ user_profiles = {[id |-> "u1", letta_agent_id |-> "agent-1"]}
    /\ upgrade_jobs = <<>>
    /\ upgrade_jobs_deadletter = <<>>
    /\ cronBatch = {}
    /\ letta = {[id |-> "agent-1",
                 config |-> BuildAgentConfigFromTemplate(ParseAgentFile("T@1.0.0#A"), "u1", Undefined)]}
    /\ lettaLog = << [op |-> "create", id |-> "agent-1",
                      config |-> BuildAgentConfigFromTemplate(ParseAgentFile("T@1.0.0#A"), "u1", Undefined)] >>
    /\ pc = [p \in Procs |-> "idle"]
    /\ req = [p \in Procs |-> NoRequest]
    /\ loc = [p \in Procs |-> NoLocals]
    /\ res = [p \in Procs |-> NoResponse]
    /\ budget = MaxUpgrades
    /\ proceeded = [k \in KeyOpts \ {Undefined} |-> 0]

UpgradeAny(p) ==
    /\ CanStart(p)
    /\ \E payload \in {pl \in AllUpgradePayloads : pl.use_latest = Undefined},
          userId \in UpgradeUsers :
          Enter(p, UpgradeRequest("agent-1", payload, userId, Undefined))
    /\ UNCHANGED <<cronVars, storeVars, remoteVars, proceeded>>

NextUpgrade ==
    \E p \in Procs :
        \/ UpgradeAny(p)
        \/ UpgSelect(p)
        \/ UpgResolve(p)
        \/ UpgFetch(p)
        \/ UpgLogDryRun(p)
        \/ UpgEnqueue(p)
        \/ UpgUpdate(p)
        \/ UpgSetVersion(p)
        \/ UpgLogApplied(p)
        \/ Return(p)

SpecUpgrade == InitUpgrade /\ [][NextUpgrade]_vars

(***************************************************************************)
(* Upgrades of an existing instance when the remote API or the queue may   *)
(* refuse a call: fetchLettaAgent and updateLettaAgent throw on a response *)
(* that is not ok, enqueueUpgradeJob throws on an rpc error; the handler's *)
(* catch turns each of them into a 500 response.                           *)
(***************************************************************************)
\* fetchLettaAgent: the GET is answered with a status that is not ok.
UpgFetchFails(p) ==
    /\ pc[p] = "upg_fetch"
    /\ Finish(p, Response(500, "Failed to fetch agent"))
    /\ UNCHANGED <<cronVars, storeVars, remoteVars, req, loc, budget, proceeded>>

\* updateLettaAgent: the PATCH is answered with a status that is not ok.
UpgUpdateFails(p) == RemoteUpdate(p, FALSE)

\* enqueueUpgradeJob: the rpc returns an error, no message is sent.
UpgEnqueueFails(p) ==
    /\ pc[p] = "upg_enqueue"
    /\ Finish(p, Response(500, "rpc ams_enqueue_upgrade failed"))
    /\ UNCHANGED <<cronVars, storeVars, remoteVars, req, loc, budget, proceeded>>

NextF ==
    \/ NextUpgrade
    \/ \E p \in Procs :
          \/ UpgFetchFails(p)
          \/ UpgUpdateFails(p)
          \/ UpgEnqueueFails(p)

SpecF == InitUpgrade /\ [][NextF]_vars

(***************************************************************************)
(* Requests issued one after the other when the write of cacheAgentFile    *)
(* or of logMigration may fail.  cacheAgentFile catches what the upload    *)
(* throws and ignores what it returns; logMigration only warns about the   *)
(* error of its insert.  Both return to the handler, whose next statement  *)
(* is the response.                                                        *)
(***************************************************************************)
\* Mutant of AfterSwallowedWrite: the error of the write is thrown and
\* reaches the handler's catch.
AfterThrownWrite(ok) == IF ok THEN OkResponse ELSE Response(500, "write failed")

\* What the handler answers after cacheAgentFile / logMigration, whose
\* write succeeded (ok) or failed.
AfterSwallowedWrite(ok) == OkResponse

\* cacheAgentFile: the upload fails, nothing is stored in the bucket.
PubCacheFails(p) ==
    /\ pc[p] = "pub_cache"
    /\ Finish(p, AfterSwallowedWrite(FALSE))
    /\ UNCHANGED <<cronVars, storeVars, remoteVars, req, loc, budget, proceeded>>

\* logMigration(..., true, ...): the insert returns an error, no row is
\* written.
UpgLogDryRunFails(p) ==
    /\ pc[p] = "upg_log_dry"
    /\ Finish(p, AfterSwallowedWrite(FALSE))
    /\ UNCHANGED <<cronVars, storeVars, remoteVars, req, loc, budget, proceeded>>

\* logMigration(..., false, ...): the insert returns an error, no row is
\* written.
UpgLogAppliedFails(p) ==
    /\ pc[p] = "upg_log_applied"
    /\ Finish(p, AfterSwallowedWrite(FALSE))
    /\ UNCHANGED <<cronVars, storeVars, remoteVars, req, loc, budget, proceeded>>

NextSwallow ==
    \/ NextSeq
    \/ PubCacheFails(1)
    \/ UpgLogDryRunFails(1)
    \/ UpgLogAppliedFails(1)

SpecSwallow == Init /\ [][NextSwallow]_vars

(***************************************************************************)
(* The queue and its cron job.  Queued upgrades of agent-1 send messages   *)
(* to upgrade_jobs; every fifteen minutes pg_cron runs                     *)
(* ams_requeue_stalled_upgrades(), which reads up to 600 messages of       *)
(* upgrade_jobs with a visibility timeout of 100 seconds and sends a copy  *)
(* of each to upgrade_jobs_deadletter.  pgmq.read hides a message for the  *)
(* timeout and leaves it in the queue; the timeout has passed when the     *)
(* job runs next.  No statement of the migration or of the function        *)
(* deletes or archives a message of upgrade_jobs.                          *)
(***************************************************************************)
\* Number of messages of upgrade_jobs_deadletter the model keeps (the
\* oldest ones).
MaxDeadletter == 2

\* qty of pgmq.read('upgrade_jobs', 100, 600)
ReadQty == 600

\* An upgrade request of the owner with dry_run = false and use_queue = true.
UpgradeQueued(p) ==
    /\ CanStart(p)
    /\ \E payload \in {pl \in AllUpgradePayloads :
                          /\ pl.use_latest = Undefined
                          /\ pl.dry_run = "false" /\ pl.use_queue = "true"} :
          Enter(p, UpgradeRequest("agent-1", payload, "u1", Undefined))
    /\ UNCHANGED <<cronVars, storeVars, remoteVars, proceeded>>

\* The cron job starts: pgmq.read returns the visible messages, oldest
\* first, at most ReadQty of them.
CronRead ==
    /\ cronBatch = {}
    /\ upgrade_jobs # <<>>
    /\ cronBatch' = {i \in 1..Len(upgrade_jobs) : i <= ReadQty}
    /\ UNCHANGED <<upgrade_jobs_deadletter, storeVars, remoteVars, procVars, proceeded>>

\* The messages of the rows read, in msg_id order.
RECURSIVE BatchMessages(_, _)
BatchMessages(batch, i) ==
    IF i > Len(upgrade_jobs) THEN <<>>
    ELSE (IF i \in batch THEN <<upgrade_jobs[i]>> ELSE <<>>) \o BatchMessages(batch, i + 1)

\* perform pgmq.send('upgrade_jobs_deadletter', message) for each row read;
\* the job ends.
CronSend ==
    /\ cronBatch # {}
    /\ upgrade_jobs_deadletter' =
          SubSeq(upgrade_jobs_deadletter \o BatchMessages(cronBatch, 1), 1,
                 IF Len(upgrade_jobs_deadletter) + Cardinality(cronBatch) < MaxDeadletter
                 THEN Len(upgrade_jobs_deadletter) + Cardinality(cronBatch)
                 ELSE MaxDeadletter)
    /\ cronBatch' = {}
    /\ UNCHANGED <<storeVars, remoteVars, procVars, proceeded>>

\* The migration creates upgrade_jobs only: where upgrade_jobs_deadletter
\* was not created, pgmq.send raises, and the job ends with its
\* transaction rolled back.
CronSendFails ==
    /\ cronBatch # {}
    /\ cronBatch' = {}
    /\ UNCHANGED <<upgrade_jobs_deadletter, storeVars, remoteVars, procVars, proceeded>>

NextCron ==
    \/ \E p \in Procs :
          \/ UpgradeQueued(p)
          \/ UpgSelect(p)
          \/ UpgResolve(p)
          \/ UpgFetch(p)
          \/ UpgEnqueue(p)
          \/ Return(p)
    \/ CronRead
    \/ CronSend
    \/ CronSendFails

\* cron.schedule('ams-upgrade-requeue', '*/15 * * * *', ...): the job keeps
\* being started, and a job started ends.
SpecCron ==
    /\ InitUpgrade
    /\ [][NextCron]_vars
    /\ WF_vars(CronRead)
    /\ WF_vars(CronSend \/ CronSendFails)

(***************************************************************************)
(* Synchronous upgrades of agent-1 by its owner to a named version: the    *)
(* version it runs (1.0.0, an empty plan) or 1.0.1.                        *)
(***************************************************************************)
SyncPayloads ==
    { [target_version |-> t, use_latest |-> Undefined, dry_run |-> "false",
       use_queue |-> Undefined] : t \in {"1.0.0", "1.0.1"} }

UpgradeSync(p) ==
    /\ CanStart(p)
    /\ \E payload \in SyncPayloads :
          Enter(p, UpgradeRequest("agent-1", payload, "u1", Undefined))
    /\ UNCHANGED <<cronVars, storeVars, remoteVars, proceeded>>

NextSync ==
    \E p \in Procs :
        \/ UpgradeSync(p)
        \/ UpgSelect(p)
        \/ UpgResolve(p)
        \/ UpgFetch(p)
        \/ UpgUpdate(p)
        \/ UpgSetVersion(p)
        \/ UpgLogApplied(p)
        \/ Return(p)

SpecSync == InitUpgrade /\ [][NextSync]_vars

(***************************************************************************)
(* The pure functions on their own: one call of assessSemver, of           *)
(* resolveTemplateVersion or of buildMigrationPlan, with its arguments     *)
(* drawn from bounded sets, run by process 1.                              *)
(***************************************************************************)
\* Largest number of entries of the existing list given to assessSemver.
MaxExisting == 2
\* Largest number of entries of the migrations list given to
\* buildMigrationPlan.
MaxEdges == 2

\* Version strings: releases, pre-releases, and strings that are not SemVer.
VersionStrings ==
    {"1.0.0", "1.2.0", "1.3.0", "1.4.0", "2.0.0", "2.0.0-rc.1", "2.0.0-rc.2",
     "2.0.0-beta", "1.0", "latest"}

AssessCalls ==
    { [kind |-> "assess", nextVersion |-> v, existing |-> e] :
        v \in VersionStrings,
        e \in {s \in SUBSET VersionStrings : Cardinality(s) <= MaxExisting} }

\* The contents of af_versions for template T with the versions 1.0.0 and
\* 1.0.1 stored or not, each flagged is_latest or not.
ResolveTables ==
    { a \cup b :
        a \in {{}, {VersionRow("T@1.0.0#A", FALSE)}, {VersionRow("T@1.0.0#A", TRUE)}},
        b \in {{}, {VersionRow("T@1.0.1#A", FALSE)}, {VersionRow("T@1.0.1#A", TRUE)}} }

ResolveCalls ==
    { [kind |-> "resolve", table |-> t, templateId |-> TemplateId, version |-> v,
       useLatest |-> u] :
        t \in ResolveTables, v \in {Undefined, "1.0.0", "1.0.1", "1.2.0"},
        u \in {Undefined, "true", "false"} }

\* The versions a migration list connects, and every list of at most
\* MaxEdges migrations between them.
Nodes == {"A", "B", "C"}

Edges ==
    { [from |-> f, to |-> t,
       steps |-> << [type |-> "script", description |-> f \o "->" \o t, patch |-> <<>>] >>] :
        f \in Nodes, t \in Nodes }

EdgeLists == UNION { [1..n -> Edges] : n \in 0..MaxEdges }

PlanCalls ==
    { [kind |-> "plan", currentVersion |-> f, targetVersion |-> t, migrations |-> m] :
        f \in Nodes, t \in Nodes, m \in EdgeLists }

\* Largest number of steps of the plan given to performDryRun.
MaxPlan == 3

\* The steps of those plans: the patch step and the script step of the
\* agent files, a script step without description, and a script step that
\* carries a patch.
DrySteps ==
    {PatchStep, ScriptStep,
     [type |-> "script", description |-> Undefined, patch |-> <<>>],
     [type |-> "script", description |-> "rewrite prompt",
      patch |-> << [op |-> "replace", path |-> "/system_prompt", value |-> "rewritten"] >>]}

\* The configuration of a remote agent as created for u1, and one whose
\* endpoints were changed since.
DryConfigs ==
    {BuildAgentConfigFromTemplate(AgentFileOf("1.0.0", "A"), "u1", "agent"),
     [BuildAgentConfigFromTemplate(AgentFileOf("1.0.0", "B"), "u1", "agent")
         EXCEPT !["/model_endpoint"] = "https://direct"]}

DryRunCalls ==
    { [kind |-> "dryrun", plan |-> s, currentConfig |-> c, userId |-> u] :
        s \in UNION { [1..n -> DrySteps] : n \in 0..MaxPlan },
        c \in DryConfigs, u \in UserIds }

InitFn ==
    /\ af_templates = {}
    /\ af_versions = {}
    /\ agent_instances = {}
    /\ agent_migrations = <<>>
    /\ request_dedup = {}
    /\ user_profiles = {}
    /\ storage = {}
    /\ upgrade_jobs = <<>>
    /\ upgrade_jobs_deadletter = <<>>
    /\ cronBatch = {}
    /\ letta = {}
    /\ lettaLog = <<>>
    /\ pc = [p \in Procs |-> IF p = 1 THEN "call" ELSE "idle"]
    /\ \E call \in AssessCalls \cup ResolveCalls \cup PlanCalls \cup DryRunCalls :
          req = [p \in Procs |-> IF p = 1 THEN call ELSE NoRequest]
    /\ loc = [p \in Procs |-> NoLocals]
    /\ res = [p \in Procs |-> NoResponse]
    /\ budget = 0
    /\ proceeded = [k \in KeyOpts \ {Undefined} |-> 0]

\* The call returns (or throws): its result is kept in loc.
Returned(p, result) ==
    /\ pc[p] = "call"
    /\ loc' = [loc EXCEPT ![p] = [kind |-> req[p].kind, result |-> result]]
    /\ pc' = [pc EXCEPT ![p] = "done"]
    /\ UNCHANGED <<cronVars, storeVars, remoteVars, req, res, budget, proceeded>>

CallAssess(p) ==
    /\ req[p].kind = "assess"
    /\ Returned(p, AssessSemver(req[p].nextVersion, req[p].existing))

CallResolve(p) ==
    /\ req[p].kind = "resolve"
    /\ Returned(p, ResolveTemplateVersion(req[p].table, req[p].templateId,
                                          req[p].version, req[p].useLatest))

CallPlan(p) ==
    /\ req[p].kind = "plan"
    /\ Returned(p, BuildMigrationPlan(req[p].currentVersion, req[p].targetVersion,
                                      req[p].migrations))

CallDryRun(p) ==
    /\ req[p].kind = "dryrun"
    /\ Returned(p, PerformDryRun(req[p].plan, req[p].currentConfig, req[p].userId))

NextFn ==
    \E p \in Procs :
        \/ CallAssess(p)
        \/ CallResolve(p)
        \/ CallPlan(p)
        \/ CallDryRun(p)

SpecFn == InitFn /\ [][NextFn]_vars

(***************************************************************************)
(* Properties.                                                             *)
(***************************************************************************)
LatestRows(templateId) == {r \in VersionsOf(templateId) : r.is_latest}

\* No publish request is between its first and its last statement.
NoPublishInFlight == \A p \in Procs : req[p].kind = "publish" => pc[p] = "done"

DuplicateVersionResponses ==
    {Response(400, "Version already published"), Response(409, "Version already exists")}

IdempotencyResponses ==
    {Response(409, "Duplicate request"),
     Response(409, "Idempotency key re-used with different payload")}

\* The responses of a request that ensureIdempotency stopped.
GuardRejections ==
    IdempotencyResponses \cup {Response(500, "duplicate key value violates request_dedup_pkey")}

\* C1: a publish of a (template_id, version) that is already stored never
\* succeeds: it is refused as a duplicate version (by the SemVer gate or by
\* the primary key), unless its idempotency key stopped it before the
\* publish began; and no step of any request (publish, create, upgrade)
\* removes a stored version or changes its content or checksum.
C1_PublishTwiceKeepsFirst ==
    [][ /\ \A r \in af_versions : \E r2 \in af_versions' :
              /\ r2.template_id = r.template_id /\ r2.version = r.version
              /\ r2.af_source = r.af_source /\ r2.checksum = r.checksum
        /\ \A p \in Procs :
              (pc'[p] = "done" /\ req'[p].kind = "publish" /\ req'[p].dupAtStart)
              => \/ res'[p] \in DuplicateVersionResponses
                 \/ HasKey(req'[p].key) /\ res'[p] \in GuardRejections ]_vars

\* C1 witness: the second publish of a stored version, with another
\* content, has been refused as a duplicate and the first content is kept.
C1_Witness ==
    \E p \in Procs :
        /\ pc[p] = "done" /\ req[p].kind = "publish" /\ req[p].dupAtStart
        /\ res[p] \in DuplicateVersionResponses
        /\ \E r \in af_versions :
              /\ r.version = ParseAgentFile(req[p].rawBody).template.version
              /\ r.af_source # req[p].rawBody
              /\ r.checksum = Sha256(r.af_source)

C3_ExactlyOneLatestAlways ==
    VersionsOf(TemplateId) # {} => Cardinality(LatestRows(TemplateId)) = 1

\* C4: once the publish requests have completed, whatever their
\* interleaving, a template that has a version has exactly one version
\* flagged is_latest.
C4_ExactlyOneLatestAfterRace ==
    (NoPublishInFlight /\ VersionsOf(TemplateId) # {})
    => Cardinality(LatestRows(TemplateId)) = 1

\* C5: once the publish requests have completed, the version flagged
\* is_latest is not lower in SemVer precedence than any stored version.
C5_LatestIsMaximum ==
    NoPublishInFlight
    => \A l \in LatestRows(TemplateId), r \in VersionsOf(TemplateId) :
          ~SemverLt(l.version, r.version)

\* C6: ensureIdempotency lets at most one request through per key.
C6_AtMostOneProceeds ==
    \A k \in DOMAIN proceeded : proceeded[k] <= 1

\* C6 witness: two requests raced on a fresh key; one went through and the
\* other one was stopped.
C6_Witness ==
    \E p \in Procs :
        /\ pc[p] = "done" /\ HasKey(req[p].key)
        /\ req[p].keyAtStart = "fresh" /\ req[p].raced
        /\ res[p] \in GuardRejections
        /\ proceeded[req[p].key] = 1

\* Past ensureIdempotency: the request is at a statement of its operation,
\* or has ended with a response that is not the guard's.
PastGuard(p) ==
    /\ pc[p] \notin {"idle", "idem_select", "idem_insert"}
    /\ pc[p] = "done" => res[p] \notin GuardRejections

\* C7: a request that arrives when its key is recorded never runs a
\* statement of its operation and ends with "Duplicate request" (same
\* payload) or "Idempotency key re-used with different payload"; a request
\* that arrives with a fresh key and meets no other request with that key
\* gets through the guard, which records its fingerprint.
C7_SequentialSameKey ==
    \A p \in Procs :
        /\ (req[p].kind # "none" /\ req[p].keyAtStart = "same")
           => /\ pc[p] \in {"idem_select", "done"}
              /\ pc[p] = "done" => res[p] = Response(409, "Duplicate request")
        /\ (req[p].kind # "none" /\ req[p].keyAtStart = "different")
           => /\ pc[p] \in {"idem_select", "done"}
              /\ pc[p] = "done"
                 => res[p] = Response(409, "Idempotency key re-used with different payload")
        /\ (req[p].kind # "none" /\ req[p].keyAtStart = "fresh" /\ ~req[p].raced
            /\ pc[p] \notin {"idem_select", "idem_insert"})
           => /\ PastGuard(p)
              /\ [idempotency_key |-> req[p].key, checksum |-> Sha256(req[p].hashSource)]
                    \in request_dedup

\* C7 witness: after a first request went through with the key, a second
\* one with another payload has been answered with the conflict.
C7_Witness ==
    \E p \in Procs :
        /\ pc[p] = "done" /\ req[p].keyAtStart = "different"
        /\ res[p] = Response(409, "Idempotency key re-used with different payload")
        /\ proceeded[req[p].key] = 1

\* C8: a request that arrives with a fresh key and is stopped by
\* ensureIdempotency (it ends at the guard's select or insert without
\* recording its key) is answered with an idempotency outcome: "Duplicate
\* request" or "Idempotency key re-used with different payload".
C8_LoserGetsIdempotencyOutcome ==
    [][ \A p \in Procs :
          (/\ pc[p] \in {"idem_select", "idem_insert"} /\ pc'[p] = "done"
           /\ req[p].keyAtStart = "fresh" /\ proceeded' = proceeded)
          => res'[p] \in IdempotencyResponses ]_vars

\* The request whose handler takes the step, for a step of process p.
ActingRequest(p) == IF pc[p] = "idle" THEN req'[p] ELSE req[p]

DryRunRequested(r) == r.kind = "upgrade" /\ r.payload.dry_run = "true"

RECURSIVE PatchEntries(_)
PatchEntries(plan) ==
    IF plan = <<>> THEN <<>>
    ELSE (IF Head(plan).type = "json_patch" THEN Head(plan).patch ELSE <<>>)
         \o PatchEntries(Tail(plan))

\* C10: the diff of a successful upgrade request is one entry per patch
\* operation of the plan's patch steps, in plan order, followed by the two
\* endpoint override entries.
C10_DiffListsPatchAndOverride ==
    \A p \in Procs :
        (pc[p] = "done" /\ req[p].kind = "upgrade" /\ res[p].status = 200)
        => loc[p].dryRunResult.diff =
              PatchEntries(loc[p].plan)
              \o << [op |-> "set", path |-> "/model_endpoint",
                     value |-> BillingEndpoint(loc[p].agentRecord.user_id)],
                    [op |-> "set", path |-> "/embedding_endpoint",
                     value |-> BillingEndpoint(loc[p].agentRecord.user_id)] >>

\* The two endpoint fields of a configuration are the billing endpoint of
\* the user.
BilledTo(config, userId) ==
    /\ config["/model_endpoint"] = BillingEndpoint(userId)
    /\ config["/embedding_endpoint"] = BillingEndpoint(userId)

\* C11: every configuration sent to the remote API (create or update) for
\* an instance, every configuration a create is about to send and every
\* updatedConfig performDryRun returned has model_endpoint and
\* embedding_endpoint equal to the billing endpoint of the instance owner.
C11_BillingEndpointsForced ==
    /\ \A i \in 1..Len(lettaLog) : \A a \in agent_instances :
          a.agent_id = lettaLog[i].id => BilledTo(lettaLog[i].config, a.user_id)
    /\ \A p \in Procs :
          /\ loc[p].kind = "create" => BilledTo(loc[p].config, req[p].userId)
          /\ (loc[p].kind = "upgrade"
              /\ DOMAIN loc[p].dryRunResult.updatedConfig = ConfigPaths)
             => BilledTo(loc[p].dryRunResult.updatedConfig, loc[p].agentRecord.user_id)

\* C11 witness: a synchronous upgrade whose patch step set /model and
\* /model_endpoint has sent its update; the model was changed by the patch
\* and the endpoint is the owner's billing endpoint.
C11_Witness ==
    \E i \in 1..Len(lettaLog) :
        /\ lettaLog[i].op = "update"
        /\ lettaLog[i].config["/model"] = "gpt-4o-mini"
        /\ BilledTo(lettaLog[i].config, "u1")
        /\ \E a \in agent_instances : a.agent_id = lettaLog[i].id /\ a.user_id = "u1"

\* C12: a step changes agent_instances only when it is the version update
\* of a synchronous upgrade whose remote update was accepted, and it sets
\* the version of that instance to the target version; when the remote
\* update is refused the request ends with a 500 response carrying the
\* failure and agent_instances is left as it was.
C12_VersionAdvancesAfterUpdate ==
    [][ /\ \A p \in Procs :
              (pc[p] = "upg_update" /\ pc'[p] = "done")
              => /\ agent_instances' = agent_instances
                 /\ res'[p] = Response(500, "Failed to update agent")
        /\ agent_instances' # agent_instances
           => \E p \in Procs :
                 /\ pc[p] = "upg_set_version" /\ pc'[p] = "upg_log_applied"
                 /\ \E i \in 1..Len(lettaLog) :
                       lettaLog[i] = [op |-> "update", id |-> req[p].agentId,
                                      config |-> loc[p].dryRunResult.updatedConfig]
                 /\ agent_instances' =
                       { IF a.agent_id = req[p].agentId
                         THEN [a EXCEPT !.version = loc[p].toVersion]
                         ELSE a : a \in agent_instances } ]_vars

\* C12 witness: the remote update of a synchronous upgrade 1.0.0 -> 1.0.1
\* was refused; the request ended with the failure and the instance is
\* still at 1.0.0.
C12_Witness ==
    \E p \in Procs :
        /\ pc[p] = "done" /\ req[p].kind = "upgrade"
        /\ res[p] = Response(500, "Failed to update agent")
        /\ loc[p].toVersion = "1.0.1"
        /\ \E i \in 1..Len(lettaLog) : lettaLog[i].op = "update_failed"
        /\ \A a \in agent_instances : a.version = "1.0.0"

\* C13: the step in which the remote update of a synchronous upgrade is
\* refused appends a MigrationAttempt with status failed.
C13_FailedAttemptLogged ==
    [][ \A p \in Procs :
          (pc[p] = "upg_update" /\ pc'[p] = "done")
          => /\ Len(agent_migrations') = Len(agent_migrations) + 1
             /\ agent_migrations'[Len(agent_migrations')].status = "failed" ]_vars

\* C14: a non-dry-run upgrade with use_queue that succeeds has a
\* MigrationAttempt with status queued for its instance when it returns.
C14_QueuedAttemptLogged ==
    [][ \A p \in Procs :
          (pc[p] = "upg_enqueue" /\ pc'[p] = "done" /\ res'[p].status = 200)
          => \E i \in 1..Len(agent_migrations') :
                /\ agent_migrations'[i].status = "queued"
                /\ agent_migrations'[i].agent_id = req[p].agentId ]_vars

QueuedRequested(r) ==
    r.kind = "upgrade" /\ r.payload.dry_run = "false" /\ Truthy(r.payload.use_queue)

\* C15: no step of an upgrade request with dry_run = false and use_queue
\* changes an instance row or calls the remote API's update; the queue
\* changes only in the last step of a request that succeeds, by exactly
\* one message carrying the instance id, the owner, the version read from
\* the instance row, the target version and the computed plan.
C15_QueuedEnqueuesOneJob ==
    [][ \A p \in Procs :
          (pc'[p] # pc[p] /\ QueuedRequested(ActingRequest(p)))
          => /\ agent_instances' = agent_instances
             /\ letta' = letta
             /\ lettaLog' = lettaLog
             /\ upgrade_jobs' =
                   IF pc[p] # "done" /\ pc'[p] = "done" /\ res'[p].status = 200
                   THEN Append(upgrade_jobs,
                               [agent_id |-> req[p].agentId,
                                user_id |-> loc[p].agentRecord.user_id,
                                from_version |-> loc[p].agentRecord.version,
                                to_version |-> loc[p].toVersion,
                                plan |-> loc[p].plan])
                   ELSE upgrade_jobs ]_vars

\* C15 witness: a queued upgrade of agent-1 has succeeded; the queue holds
\* its one message, the instance is at 1.0.0 and no update was sent.
C15_Witness ==
    \E p \in Procs :
        /\ pc[p] = "done" /\ QueuedRequested(req[p]) /\ res[p].status = 200
        /\ upgrade_jobs = << [agent_id |-> "agent-1", user_id |-> "u1",
                              from_version |-> "1.0.0", to_version |-> "1.0.1",
                              plan |-> <<PatchStep>>] >>
        /\ \A a \in agent_instances : a.version = "1.0.0"
        /\ \A i \in 1..Len(lettaLog) : lettaLog[i].op # "update"

\* A finished call of the pure function named kind.
Called(p, kind) == pc[p] = "done" /\ req[p].kind = kind /\ loc[p].kind = kind

\* C16: resolveTemplateVersion fails with the selector error unless
\* exactly one of version and use_latest = true is supplied: it fails when
\* neither is given and when both are given.
C16_ExactlyOneSelector ==
    \A p \in Procs :
        (Called(p, "resolve") /\ (Truthy(req[p].version) <=> Truthy(req[p].useLatest)))
        => loc[p].result.error = "Either version or use_latest must be provided"

\* The rule list of the SemVer gate: rejected, duplicate, regressive,
\* allowed, in that order.
AssessReference(proposed, existing) ==
    LET valid == {e \in existing : SemverValid(e)}
    IN IF ~SemverValid(proposed) THEN "rejected"
       ELSE IF proposed \in existing THEN "duplicate"
       ELSE IF \E e \in valid : SemverCompare(proposed, e) < 0 THEN "regressive"
       ELSE "allowed"

RECURSIVE WalkNode(_, _, _)
WalkNode(migrations, start, k) ==
    IF k = 0 THEN start
    ELSE LET prev == WalkNode(migrations, start, k - 1)
             leaving == {i \in 1..Len(migrations) : migrations[i].from = prev}
         IN IF prev = "" \/ leaving = {} THEN ""
            ELSE migrations[CHOOSE i \in leaving : \A j \in leaving : i <= j].to

\* The walk from start meets a version for the second time after exactly k
\* migrations, without having met target.
ReencountersAt(migrations, start, target, k) ==
    /\ WalkNode(migrations, start, k) # ""
    /\ \E i \in 0..(k - 1) : WalkNode(migrations, start, i) = WalkNode(migrations, start, k)
    /\ \A m \in 0..k : WalkNode(migrations, start, m) # target
    /\ \A j \in 1..(k - 1) : \A i \in 0..(j - 1) :
          WalkNode(migrations, start, i) # WalkNode(migrations, start, j)

\* C20: buildMigrationPlan returns for every migration list and every
\* (from, to); it fails with the circular-plan error exactly when the walk
\* meets a version again before reaching the target, and it stops at that
\* first re-encounter, having left each version at most once.
C20_PlanStopsAtCycle ==
    \A p \in Procs :
        Called(p, "plan")
        => LET r == loc[p].result
               m == req[p].migrations
               from == req[p].currentVersion
               to == req[p].targetVersion
           IN /\ r.error \in {"", "Circular migration plan detected", "No migration step found"}
              /\ r.error = "Circular migration plan detected"
                 <=> \E k \in 1..(Len(m) + 1) : ReencountersAt(m, from, to, k)
              /\ \A k \in 1..(Len(m) + 1) :
                    ReencountersAt(m, from, to, k)
                    => /\ r.guard = {WalkNode(m, from, i) : i \in 0..(k - 1)}
                       /\ Cardinality(r.guard) = k

\* C20 witness: plan(A, C) over the migrations A -> B, B -> A has ended
\* with the circular-plan error after leaving A and B once each.
C20_Witness ==
    \E p \in Procs :
        /\ Called(p, "plan")
        /\ req[p].currentVersion = "A" /\ req[p].targetVersion = "C"
        /\ Len(req[p].migrations) = 2
        /\ req[p].migrations[1].from = "A" /\ req[p].migrations[1].to = "B"
        /\ req[p].migrations[2].from = "B" /\ req[p].migrations[2].to = "A"
        /\ loc[p].result.error = "Circular migration plan detected"
        /\ loc[p].result.guard = {"A", "B"}

\* resolveTemplateVersion(T, undefined, true) on a content of af_versions.
LatestResolved(table) == ResolveTemplateVersion(table, TemplateId, Undefined, "true")

ConflictErrors ==
    {"Version already published", "Version already exists", "Duplicate request",
     "Idempotency key re-used with different payload"}
NotFoundErrors == {"Template version not found", "Agent not found"}
BadInputErrors ==
    {"Validation failed", "Version is lower than latest",
     "Circular migration plan detected", "No migration step found"}

\* C19: a duplicate version and the idempotency outcomes are answered with
\* the conflict status (409), a missing template version or instance with
\* the not-found status (404), a validation failure, a regressive version,
\* a circular plan and a missing path with the bad-input status (400).
C19_StatusClassPerFailureKind ==
    \A p \in Procs :
        pc[p] = "done"
        => /\ res[p].error \in ConflictErrors => res[p].status = 409
           /\ res[p].error \in NotFoundErrors => res[p].status = 404
           /\ res[p].error \in BadInputErrors => res[p].status = 400

\* The steps the walk has collected after k migrations from start: the
\* step lists of the migrations taken, one after the other.
RECURSIVE WalkSteps(_, _, _)
WalkSteps(migrations, start, k) ==
    IF k = 0 THEN <<>>
    ELSE LET prev == WalkNode(migrations, start, k - 1)
             leaving == {i \in 1..Len(migrations) : migrations[i].from = prev}
         IN IF prev = "" \/ leaving = {} THEN <<>>
            ELSE WalkSteps(migrations, start, k - 1)
                 \o migrations[CHOOSE i \in leaving : \A j \in leaving : i <= j].steps

\* The walk from start is at a version other than target that no migration
\* leaves, after k migrations and without having met target.
DeadEndAt(migrations, start, target, k) ==
    /\ WalkNode(migrations, start, k) # ""
    /\ \A i \in 0..k : WalkNode(migrations, start, i) # target
    /\ \A i \in 1..Len(migrations) : migrations[i].from # WalkNode(migrations, start, k)

\* C21: buildMigrationPlan(from, to, migrations) is the single-path walk:
\* from = to gives the empty plan whatever the migrations; a plan that
\* succeeds is the step lists of the migrations from -> n1 -> ... -> to one
\* after the other in walk order, each migration being the one that leaves
\* the current version (the first of the list when several do); and it
\* fails with "No migration step found" exactly when the walk arrives at a
\* version other than to that no migration leaves.
C21_PlanIsSinglePathWalk ==
    \A p \in Procs :
        Called(p, "plan")
        => LET r == loc[p].result
               m == req[p].migrations
               from == req[p].currentVersion
               to == req[p].targetVersion
           IN /\ from = to => (r.error = "" /\ r.steps = <<>>)
              /\ r.error = ""
                 => \E k \in 0..Len(m) :
                       /\ WalkNode(m, from, k) = to
                       /\ \A i \in 0..(k - 1) : WalkNode(m, from, i) # to
                       /\ r.steps = WalkSteps(m, from, k)
              /\ (\E k \in 0..Len(m) : WalkNode(m, from, k) = to) => r.error = ""
              /\ r.error = "No migration step found"
                 <=> \E k \in 0..Len(m) : DeadEndAt(m, from, to, k)

\* C21 witness: plan(A, C) over the migrations A -> B, B -> C has returned
\* the steps of A -> B followed by the steps of B -> C.
C21_Witness ==
    \E p \in Procs :
        /\ Called(p, "plan")
        /\ req[p].currentVersion = "A" /\ req[p].targetVersion = "C"
        /\ Len(req[p].migrations) = 2
        /\ req[p].migrations[1].from = "A" /\ req[p].migrations[1].to = "B"
        /\ req[p].migrations[2].from = "B" /\ req[p].migrations[2].to = "C"
        /\ loc[p].result.error = ""
        /\ Len(loc[p].result.steps) = 2
        /\ loc[p].result.steps[1].description = "A->B"
        /\ loc[p].result.steps[2].description = "B->C"

\* Two finished publish requests of one (template_id, version) that met in
\* the store: the version was stored when neither arrived, ensureIdempotency
\* stopped neither, the document of each is valid, and no stored version
\* makes the version regressive.
DoublePublish(p, q) ==
    /\ p # q
    /\ pc[p] = "done" /\ pc[q] = "done"
    /\ req[p].kind = "publish" /\ req[q].kind = "publish"
    /\ ~ParseThrows(req[p].rawBody) /\ ~ParseThrows(req[q].rawBody)
    /\ ParseAgentFile(req[p].rawBody).template = ParseAgentFile(req[q].rawBody).template
    /\ ~req[p].dupAtStart /\ ~req[q].dupAtStart
    /\ res[p] \notin GuardRejections /\ res[q] \notin GuardRejections
    /\ ValidateAgentFile(ParseAgentFile(req[p].rawBody))
    /\ ValidateAgentFile(ParseAgentFile(req[q].rawBody))
    /\ LET t == ParseAgentFile(req[p].rawBody).template
       IN AssessSemver(t.version, {r.version : r \in VersionsOf(t.id)} \ {t.version}) = "allowed"

\* C22: two concurrent publishes of the same (template_id, version) end,
\* whatever the interleaving of their store statements, with one success
\* and one duplicate-version failure, and af_versions holds exactly one row
\* of the pair, with the content of the request that succeeded.
C22_DoublePublishOneWins ==
    \A p, q \in Procs :
        DoublePublish(p, q)
        => LET t == ParseAgentFile(req[p].rawBody).template
               rows == {r \in af_versions : r.template_id = t.id /\ r.version = t.version}
           IN /\ {res[p].status, res[q].status} \in {{200, 400}, {200, 409}}
              /\ res[p].status # 200 => res[p] \in DuplicateVersionResponses
              /\ res[q].status # 200 => res[q] \in DuplicateVersionResponses
              /\ Cardinality(rows) = 1
              /\ \A r \in rows :
                    /\ res[p].status = 200 => r.af_source = req[p].rawBody
                    /\ res[q].status = 200 => r.af_source = req[q].rawBody

\* C22 witness: two publishes of T 1.0.0 with different documents both
\* passed the version list; one inserted and succeeded, the insert of the
\* other was refused by the primary key, and the row holds the winner's
\* document.
C22_Witness ==
    \E p, q \in Procs :
        /\ DoublePublish(p, q)
        /\ req[p].rawBody # req[q].rawBody
        /\ res[p] = OkResponse
        /\ res[q] = Response(409, "Version already exists")
        /\ \E r \in af_versions : r.af_source = req[p].rawBody
        /\ \A r \in af_versions : r.af_source # req[q].rawBody

\* The script steps of a plan, in plan order.
ScriptSteps(plan) == SelectSeq(plan, LAMBDA s : s.type = "script")

\* C23: performDryRun executes no script step. The warnings are one entry
\* per script step, in plan order, each naming its step; and for a plan
\* made of script steps only, updatedConfig is currentConfig in every field
\* but model_endpoint and embedding_endpoint.
C23_ScriptStepsOnlyWarn ==
    \A p \in Procs :
        Called(p, "dryrun")
        => LET r == loc[p].result
               plan == req[p].plan
               scripts == ScriptSteps(plan)
           IN /\ Len(r.warnings) = Len(scripts)
              /\ \A i \in 1..Len(scripts) :
                    r.warnings[i] = "Script step executed in dry-run only: "
                                    \o (IF scripts[i].description = Undefined
                                        THEN "no description"
                                        ELSE scripts[i].description)
              /\ Len(scripts) = Len(plan)
                 => \A path \in ConfigPaths \ {"/model_endpoint", "/embedding_endpoint"} :
                       r.updatedConfig[path] = req[p].currentConfig[path]

\* C23 witness: a plan of two script steps, one of them carrying a patch
\* of the system prompt, has been simulated: two warnings in plan order,
\* and the system prompt is the current one.
C23_Witness ==
    \E p \in Procs :
        /\ Called(p, "dryrun")
        /\ Len(req[p].plan) = 2
        /\ req[p].plan[1].type = "script" /\ req[p].plan[1].description = "rewrite prompt"
        /\ req[p].plan[2] = ScriptStep
        /\ loc[p].result.warnings =
              << "Script step executed in dry-run only: rewrite prompt",
                 "Script step executed in dry-run only: reindex memory" >>
        /\ loc[p].result.updatedConfig["/system_prompt"] = req[p].currentConfig["/system_prompt"]
        /\ loc[p].result.updatedConfig["/model_endpoint"] # req[p].currentConfig["/model_endpoint"]

\* C24: a failed write of the cache during a publish and a failed write of
\* the migration log during an upgrade do not fail the request. The publish
\* answers 200 with its version stored and flagged is_latest; the dry-run
\* upgrade answers 200; the applied upgrade answers 200 with the remote
\* agent updated and the instance at the target version.
C24_WriteFailuresSwallowed ==
    [][ \A p \in Procs :
          /\ (pc[p] = "pub_cache" /\ pc'[p] # "pub_cache" /\ storage' = storage)
             => /\ pc'[p] = "done" /\ res'[p] = OkResponse
                /\ \E r \in af_versions' :
                      /\ r.template_id = ParseAgentFile(req[p].rawBody).template.id
                      /\ r.version = ParseAgentFile(req[p].rawBody).template.version
                      /\ r.af_source = req[p].rawBody
                      /\ r.is_latest
          /\ (pc[p] = "upg_log_dry" /\ pc'[p] # "upg_log_dry"
              /\ agent_migrations' = agent_migrations)
             => pc'[p] = "done" /\ res'[p] = OkResponse
          /\ (pc[p] = "upg_log_applied" /\ pc'[p] # "upg_log_applied"
              /\ agent_migrations' = agent_migrations)
             => /\ pc'[p] = "done" /\ res'[p] = OkResponse
                /\ \E a \in agent_instances' :
                      a.agent_id = req[p].agentId /\ a.version = loc[p].toVersion
                /\ \E a \in letta' :
                      a.id = req[p].agentId /\ a.config = loc[p].dryRunResult.updatedConfig ]_vars

\* C24 witness: the publish of a version has been answered although its
\* file never reached the bucket, and an applied upgrade of the instance
\* created since has been answered 200 although no migration row was
\* written.
C24_Witness ==
    \E p \in Procs :
        /\ storage = {}
        /\ \E r \in af_versions : r.is_latest
        /\ pc[p] = "done" /\ req[p].kind = "upgrade" /\ res[p] = OkResponse
        /\ \E i \in 1..Len(lettaLog) : lettaLog[i].op = "update"
        /\ agent_migrations = <<>>

\* C25: with the cron job started again and again, every message sent to
\* upgrade_jobs settles: from some point on no run of the job reads it (and
\* so none copies it).
C25_QueuedMessagesSettle ==
    \A i \in 1..MaxUpgrades : <>[](i \notin cronBatch)

\* C26: the record of request_dedup is written before the operation is
\* validated or run and is never removed or changed. A request with a key
\* that ends with a response which is not the guard's (a failure of its
\* operation included) leaves the record of its key and fingerprint behind;
\* and a request that arrives with the same key and the same payload is
\* stopped at the select with "Duplicate request", having changed nothing,
\* so the operation does not run under that key again.
C26_FailedFirstBlocksRetry ==
    [][ /\ request_dedup \subseteq request_dedup'
        /\ \A p \in Procs :
              (pc[p] # "done" /\ pc'[p] = "done" /\ HasKey(req'[p].key)
               /\ req'[p].keyAtStart # "unread" /\ res'[p] \notin GuardRejections)
              => \E d \in request_dedup' :
                    /\ d.idempotency_key = req'[p].key
                    /\ d.checksum = Sha256(req'[p].hashSource)
        /\ \A p \in Procs :
              (pc[p] = "idem_select" /\ pc'[p] # "idem_select" /\ req[p].keyAtStart = "same")
              => /\ pc'[p] = "done"
                 /\ res'[p] = Response(409, "Duplicate request")
                 /\ storeVars' = storeVars /\ remoteVars' = remoteVars
                 /\ proceeded' = proceeded ]_vars

\* C26 witness: a publish with key k1 passed the guard and failed its
\* validation (its record is stored, no version is); the retry with the
\* same key and body has been answered "Duplicate request".
C26_Witness ==
    \E p \in Procs :
        /\ pc[p] = "done" /\ req[p].kind = "publish" /\ req[p].key = "k1"
        /\ req[p].rawBody = "T@1.0#A"
        /\ req[p].keyAtStart = "same"
        /\ res[p] = Response(409, "Duplicate request")
        /\ request_dedup = {[idempotency_key |-> "k1", checksum |-> Sha256("T@1.0#A")]}
        /\ af_versions = {}
        /\ proceeded["k1"] = 1

\* Two finished synchronous upgrades of one instance to different target
\* versions, both applied.
BothApplied(p, q) ==
    /\ p # q
    /\ pc[p] = "done" /\ pc[q] = "done"
    /\ req[p].kind = "upgrade" /\ req[q].kind = "upgrade"
    /\ req[p].agentId = req[q].agentId
    /\ Dispatch(req[p].payload) = "upg_update" /\ Dispatch(req[q].payload) = "upg_update"
    /\ res[p] = OkResponse /\ res[q] = OkResponse
    /\ loc[p].toVersion # loc[q].toVersion

\* C27: once two concurrent synchronous upgrades of one instance to
\* different target versions have completed, the version stored in
\* agent_instances is the target of the upgrade whose configuration the
\* remote API received last: the remote agent holds the configuration that
\* the upgrade to the stored version sent.
C27_VersionMatchesLastPush ==
    \A p, q \in Procs :
        BothApplied(p, q)
        => \A a \in agent_instances :
              a.agent_id = req[p].agentId
              => \E w \in {p, q} :
                    /\ loc[w].toVersion = a.version
                    /\ lettaLog[Len(lettaLog)].config = loc[w].dryRunResult.updatedConfig
                    /\ \A r \in letta :
                          r.id = a.agent_id => r.config = loc[w].dryRunResult.updatedConfig

\* C28: a statement of an upgrade request sends a configuration to the
\* remote agent, changes the version stored in agent_instances or sends a
\* message to upgrade_jobs only when the X-User-Id of the request is the
\* user_id of the instance; a request of another user, or without
\* X-User-Id, does none of these.
C28_OnlyOwnerUpgrades ==
    [][ \A p \in Procs :
          (/\ req[p].kind = "upgrade"
           /\ pc'[p] # pc[p]
           /\ \/ lettaLog' # lettaLog
              \/ letta' # letta
              \/ agent_instances' # agent_instances
              \/ upgrade_jobs' # upgrade_jobs)
          => \E a \in agent_instances :
                a.agent_id = req[p].agentId /\ req[p].userId = a.user_id ]_vars

====
